---- MODULE Spec2Model ----
(***************************************************************************)
(* Fit/predict nodes of core/dataflow/nodes/unsupervised_sklearn_models.py *)
(* and the DAG-wide fit-state visitors of core/dataflow/visitors.py.       *)
(*                                                                         *)
(* Encoding.                                                               *)
(*  - A column label is a tuple of strings: a flat label "a" is <<"a">>,   *)
(*    a two-level label ("g1", "x") is <<"g1", "x">>.  The integer label i *)
(*    that `list(range(num_cols))` produces is the one-element tuple       *)
(*    IntLabel(i) = <<"#i">>, distinct from every string label.            *)
(*  - A cell is <<v>> for the number v and <<>> (NaN) for a missing value. *)
(*  - A table is [index, columns, val]: the set of row keys, the sequence  *)
(*    of column labels, and val[r][c] the cell of row r, column c.         *)
(*  - A matrix is a sequence of rows, each a sequence of cells.            *)
(*  - A Model object is [id, params]: id is the object's identity (0 for   *)
(*    None), params what fit learned.  An object is trained once, right    *)
(*    after it is constructed, and never mutated afterwards.               *)
(*  - self._info is [fit, predict]; a phase that was never stored holds    *)
(*    NoInfo, and reading it with self._info[phase] is a KeyError.         *)
(*  - An error is reported by kind: "OK" when the call returns.            *)
(***************************************************************************)
EXTENDS Integers, Sequences, FiniteSets, TLC

\* Number of rows of an input table.
NRows == 2

RowKeys == 1..NRows

(***************************************************************************)
(* Generic helpers.                                                        *)
(***************************************************************************)
Range(s) == {s[i] : i \in DOMAIN s}

NoDuplicates(s) == \A i, j \in DOMAIN s : s[i] = s[j] => i = j

RECURSIVE SortedSeq(_)
\* The elements of a finite set of integers, ascending (a monotonic index).
SortedSeq(S) ==
    IF S = {} THEN <<>>
    ELSE LET m == CHOOSE x \in S : \A y \in S : x <= y
         IN <<m>> \o SortedSeq(S \ {m})

RECURSIVE MinOf(_)
MinOf(s) ==
    IF Len(s) = 1 THEN s[1]
    ELSE LET r == MinOf(Tail(s)) IN IF s[1] <= r THEN s[1] ELSE r

(***************************************************************************)
(* Cells, labels, tables.                                                  *)
(***************************************************************************)
NaN == <<>>

Num(v) == <<v>>

IsNaN(c) == c = NaN

IntNames == <<"#0", "#1", "#2", "#3">>

IntLabel(i) == <<IntNames[i + 1]>>

A == <<"a">>
B == <<"b">>
G1X == <<"g1", "x">>
G2X == <<"g2", "x">>

NoTable == [index |-> {}, columns |-> <<>>, val |-> <<>>]

\* One row of an input table, as the cells of its two columns.
RowPalette ==
    { <<Num(1), Num(1)>>, <<Num(2), Num(2)>>, <<NaN, Num(1)>>, <<Num(1), NaN>> }

MkTable(cols, rows) ==
    [index |-> RowKeys,
     columns |-> cols,
     val |-> [r \in RowKeys |-> [c \in Range(cols) |->
                 rows[r][CHOOSE j \in DOMAIN cols : cols[j] = c]]]]

\* Input tables with flat column labels, and with two-level column labels.
FlatTables == {MkTable(<<A, B>>, rows) : rows \in [RowKeys -> RowPalette]}

MultiTables == {MkTable(<<G1X, G2X>>, rows) : rows \in [RowKeys -> RowPalette]}

\* Input tables with a column whose label is the integer 0.
IntTables == {MkTable(<<IntLabel(0), B>>, rows) : rows \in [RowKeys -> RowPalette]}

\* df.columns.nlevels
NLevels(df) == Len(df.columns[1])

\* df[cols].dropna().index : the rows with no missing value among cols.
DropnaIndex(df, cols) ==
    SortedSeq({r \in df.index : \A c \in Range(cols) : ~IsNaN(df.val[r][c])})

\* idx.difference(non_nan_idx)
IndexDifference(idx, non_nan_idx) == idx \ Range(non_nan_idx)

\* x.reindex(index=idx) : rows of idx that x lacks become missing.
Reindex(x, idx) ==
    [index |-> idx,
     columns |-> x.columns,
     val |-> [r \in idx |-> [c \in Range(x.columns) |->
                 IF r \in x.index THEN x.val[r][c] ELSE NaN]]]

(***************************************************************************)
(* Tabular adapter: core.data_adapters.                                    *)
(***************************************************************************)
\* cdataa.transform_to_sklearn(df.loc[idx], cols)
transform_to_sklearn(df, idx, cols) ==
    [i \in 1..Len(idx) |-> [j \in 1..Len(cols) |-> df.val[idx[i]][cols[j]]]]

ShapeOK(idx, cols, vals) ==
    /\ Len(vals) = Len(idx)
    /\ \A i \in DOMAIN vals : Len(vals[i]) = Len(cols)

\* cdataa.transform_from_sklearn(idx, cols, vals), defined when ShapeOK.
transform_from_sklearn(idx, cols, vals) ==
    [index |-> Range(idx),
     columns |-> cols,
     val |-> [r \in Range(idx) |-> [c \in Range(cols) |->
                 vals[CHOOSE i \in DOMAIN idx : idx[i] = r]
                     [CHOOSE j \in DOMAIN cols : cols[j] = c]]]]

(***************************************************************************)
(* The wrapped sklearn estimator, an external library: a deterministic     *)
(* stand-in that learns the per-column minimum of the training matrix,     *)
(* transforms by subtracting it (clipped at 0) and inverts by adding it.   *)
(* Arithmetic on a missing cell gives a missing cell.                      *)
(***************************************************************************)
NoModel == [id |-> 0, params |-> <<>>]

\* self._model_func(**self._model_kwargs).fit(x_fit) : a new object.
ModelFit(id, x_fit) ==
    [id |-> id,
     params |-> [j \in 1..Len(x_fit[1]) |->
                   MinOf([i \in 1..Len(x_fit) |-> x_fit[i][j][1]])]]

\* The estimator rejects a matrix whose width is not the fitted one.
ModelAccepts(model, x) == \A i \in DOMAIN x : Len(x[i]) = Len(model.params)

ModelTransform(model, x) ==
    [i \in DOMAIN x |-> [j \in DOMAIN x[i] |->
        IF IsNaN(x[i][j]) THEN NaN
        ELSE IF x[i][j][1] >= model.params[j]
             THEN Num(x[i][j][1] - model.params[j]) ELSE Num(0)]]

ModelInverseTransform(model, x) ==
    [i \in DOMAIN x |-> [j \in DOMAIN x[i] |->
        IF IsNaN(x[i][j]) THEN NaN ELSE Num(x[i][j][1] + model.params[j])]]

\* x_fit - x_hat
MatrixMinus(x, y) ==
    [i \in DOMAIN x |-> [j \in DOMAIN x[i] |->
        IF IsNaN(x[i][j]) \/ IsNaN(y[i][j]) THEN NaN
        ELSE Num(x[i][j][1] - y[i][j][1])]]

(***************************************************************************)
(* Nodes.  kind is the class; a node that is not a FitPredictNode has kind *)
(* "Node"; NoNode is a node identifier no node was constructed for.        *)
(***************************************************************************)
None == <<>>

\* A phase self._info has no entry for.
NoInfo == [present |-> FALSE]

\* FitPredictNode.__init__ : self._info = OrderedDict()
EmptyInfo == [fit |-> NoInfo, predict |-> NoInfo]

MkNode(kind, x_vars, trans_x_vars, in_col_group, out_col_group, col_mode, nan_mode) ==
    [kind |-> kind, x_vars |-> x_vars, trans_x_vars |-> trans_x_vars,
     in_col_group |-> in_col_group, out_col_group |-> out_col_group,
     col_mode |-> col_mode, nan_mode |-> nan_mode,
     model |-> NoModel, info |-> EmptyInfo]

NoNode == [kind |-> "absent"]

FitPredictKinds ==
    {"UnsupervisedSkLearnModel", "MultiindexUnsupervisedSkLearnModel",
     "Residualizer", "SkLearnInverseTransformer"}

IsFitPredictNode(node) == node.kind \in FitPredictKinds

\* `value or default`
OrDefault(value, default) == IF value = "None" THEN default ELSE value

ColModes == {"replace_all", "merge_all"}

Constructed(node) == [err |-> "OK", node |-> node]

NotConstructed(err) == [err |-> err, node |-> NoNode]

\* A node of the DAG that is not a FitPredictNode.
PlainNode_init == Constructed([kind |-> "Node"])

UnsupervisedSkLearnModel_init(x_vars, col_mode, nan_mode) ==
    IF OrDefault(col_mode, "replace_all") \notin ColModes
    THEN NotConstructed("InvalidConfig")
    ELSE Constructed(MkNode("UnsupervisedSkLearnModel", x_vars, None, None, None,
                            OrDefault(col_mode, "replace_all"),
                            OrDefault(nan_mode, "raise")))

\* The constructor without its check that the two prefixes have one depth.
MultiindexUnsupervisedSkLearnModel_init_NoDepthCheck(in_col_group, out_col_group, nan_mode) ==
    Constructed(MkNode("MultiindexUnsupervisedSkLearnModel", None, None,
                       in_col_group, out_col_group, "None",
                       OrDefault(nan_mode, "raise")))

MultiindexUnsupervisedSkLearnModel_init(in_col_group, out_col_group, nan_mode) ==
    IF Len(in_col_group) # Len(out_col_group)
    THEN NotConstructed("InvalidConfig")
    ELSE Constructed(MkNode("MultiindexUnsupervisedSkLearnModel", None, None,
                            in_col_group, out_col_group, "None",
                            OrDefault(nan_mode, "raise")))

Residualizer_init(x_vars, nan_mode) ==
    Constructed(MkNode("Residualizer", x_vars, None, None, None, "None",
                       OrDefault(nan_mode, "raise")))

\* The constructor without its check that the two column lists are disjoint.
SkLearnInverseTransformer_init_NoCheck(x_vars, trans_x_vars, col_mode, nan_mode) ==
    IF OrDefault(col_mode, "replace_all") \notin ColModes
    THEN NotConstructed("InvalidConfig")
    ELSE Constructed(MkNode("SkLearnInverseTransformer", x_vars, trans_x_vars,
                            None, None, OrDefault(col_mode, "replace_all"),
                            OrDefault(nan_mode, "raise")))

SkLearnInverseTransformer_init(x_vars, trans_x_vars, col_mode, nan_mode) ==
    IF Range(x_vars) \cap Range(trans_x_vars) # {}
    THEN NotConstructed("InvalidConfig")
    ELSE IF OrDefault(col_mode, "replace_all") \notin ColModes
    THEN NotConstructed("InvalidConfig")
    ELSE Constructed(MkNode("SkLearnInverseTransformer", x_vars, trans_x_vars,
                            None, None, OrDefault(col_mode, "replace_all"),
                            OrDefault(nan_mode, "raise")))

(***************************************************************************)
(* The result of a fit or predict call: the node after the call, the error *)
(* kind, the returned table, and the row keys a NaNDetected error carries. *)
(***************************************************************************)
Raised(self, err, nan_idx) ==
    [self |-> self, err |-> err, df_out |-> NoTable, nan_idx |-> nan_idx]

Returned(self, df_out) ==
    [self |-> self, err |-> "OK", df_out |-> df_out, nan_idx |-> {}]

_handle_nans(self, idx, non_nan_idx) ==
    IF self.nan_mode = "raise"
    THEN IF Cardinality(idx) # Len(non_nan_idx)
         THEN [err |-> "NaNDetected", nan_idx |-> IndexDifference(idx, non_nan_idx)]
         ELSE [err |-> "OK", nan_idx |-> {}]
    ELSE IF self.nan_mode = "drop"
    THEN [err |-> "OK", nan_idx |-> {}]
    ELSE [err |-> "InvalidConfig", nan_idx |-> {}]

\* get_df_info_as_string(df_out)
get_df_info(df_out) ==
    [nrows |-> Cardinality(df_out.index), columns |-> df_out.columns]

\* The info both branches of a helper build from the model.
MkInfo(x_vars, model, df_out) ==
    [present |-> TRUE, model_x_vars |-> x_vars, model_params |-> <<>>,
     model_attributes |-> model.params, df_out_info |-> get_df_info(df_out)]

\* self._set_info("fit" if fit else "predict", info)
_set_info(self, fit, info) ==
    IF fit THEN [self EXCEPT !.info.fit = info]
    ELSE [self EXCEPT !.info.predict = info]

\* df_in.merge(df_out, left_index=True, right_index=True), columns of left first.
MergeOnIndex(left, right) ==
    [index |-> left.index \cap right.index,
     columns |-> left.columns \o right.columns,
     val |-> [r \in left.index \cap right.index |->
                [c \in Range(left.columns) \cup Range(right.columns) |->
                    IF c \in Range(right.columns) THEN right.val[r][c]
                    ELSE left.val[r][c]]]]

\* ColModeMixin._apply_col_mode(df, df_out, cols, col_mode)
_apply_col_mode(df, df_out, cols, col_mode) ==
    IF col_mode = "merge_all"
    THEN IF Range(df_out.columns) \cap (Range(df.columns) \ Range(cols)) # {}
         THEN [err |-> "DuplicateColumn", df_out |-> NoTable]
         ELSE [err |-> "OK", df_out |-> MergeOnIndex(df, df_out)]
    ELSE [err |-> "OK", df_out |-> df_out]

\* The steps after the model's output, with the info stored under "fit"
\* whatever the phase.
USM_finish_InfoAlwaysFit(self, df_in, fit, x_vars, x_hat) ==
    LET reindexed == Reindex(x_hat, df_in.index)
        merged == _apply_col_mode(df_in, reindexed, x_vars, self.col_mode)
    IN IF merged.err # "OK" THEN Raised(self, merged.err, {})
       ELSE LET self2 == _set_info(self, TRUE, MkInfo(x_vars, self.model, merged.df_out))
            IN IF ~NoDuplicates(merged.df_out.columns)
               THEN Raised(self2, "DuplicateColumn", {})
               ELSE Returned(self2, merged.df_out)

\* The steps after the model's output with the column mode left out.
USM_finish_NoColMode(self, df_in, fit, x_vars, x_hat) ==
    LET df_out == Reindex(x_hat, df_in.index)
        self2 == _set_info(self, fit, MkInfo(x_vars, self.model, df_out))
    IN IF ~NoDuplicates(df_out.columns)
       THEN Raised(self2, "DuplicateColumn", {})
       ELSE Returned(self2, df_out)

\* Steps of a helper that follow the model's output x_hat (a table on the
\* non-missing rows): reindex, column mode, info, duplicate check.
USM_finish(self, df_in, fit, x_vars, x_hat) ==
    LET reindexed == Reindex(x_hat, df_in.index)
        merged == _apply_col_mode(df_in, reindexed, x_vars, self.col_mode)
    IN IF merged.err # "OK" THEN Raised(self, merged.err, {})
       ELSE LET self2 == _set_info(self, fit, MkInfo(x_vars, self.model, merged.df_out))
            IN IF ~NoDuplicates(merged.df_out.columns)
               THEN Raised(self2, "DuplicateColumn", {})
               ELSE Returned(self2, merged.df_out)

UnsupervisedSkLearnModel_fit_predict_helper(self, df_in, fit, newId) ==
    LET x_vars == IF self.x_vars = None THEN df_in.columns ELSE self.x_vars
        non_nan_idx == DropnaIndex(df_in, x_vars)
        nans == _handle_nans(self, df_in.index, non_nan_idx)
        x_fit == transform_to_sklearn(df_in, non_nan_idx, x_vars)
        self1 == IF fit THEN [self EXCEPT !.model = ModelFit(newId, x_fit)] ELSE self
        x_transform == ModelTransform(self1.model, x_fit)
        num_cols == Len(x_transform[1])
        cols == [i \in 1..num_cols |-> IntLabel(i - 1)]
    IN IF non_nan_idx = <<>> THEN Raised(self, "AssertionError", {})
       ELSE IF nans.err # "OK" THEN Raised(self, nans.err, nans.nan_idx)
       ELSE IF self1.model = NoModel THEN Raised(self1, "AttributeError", {})
       ELSE IF ~ModelAccepts(self1.model, x_fit) THEN Raised(self1, "ShapeMismatch", {})
       ELSE USM_finish(self1, df_in, fit, x_vars,
                       transform_from_sklearn(non_nan_idx, cols, x_transform))

\* `group in df.columns` for a MultiIndex: group is a leading part of a label.
HasColGroup(df, group) ==
    \E j \in DOMAIN df.columns :
        /\ Len(group) <= Len(df.columns[j])
        /\ SubSeq(df.columns[j], 1, Len(group)) = group

\* pd.concat([df_out], axis=1, keys=[group]) : every label gets the prefix.
ConcatKeys(df_out, group) ==
    [index |-> df_out.index,
     columns |-> [j \in DOMAIN df_out.columns |-> group \o df_out.columns[j]],
     val |-> [r \in df_out.index |->
                [c \in {group \o d : d \in Range(df_out.columns)} |->
                    df_out.val[r][SubSeq(c, Len(group) + 1, Len(c))]]]]

\* left.merge(right, how="outer", left_index=True, right_index=True)
MergeOuter(left, right) ==
    LET idx == left.index \cup right.index
    IN [index |-> idx,
        columns |-> left.columns \o right.columns,
        val |-> [r \in idx |->
                   [c \in Range(left.columns) \cup Range(right.columns) |->
                       IF c \in Range(left.columns)
                       THEN (IF r \in left.index THEN left.val[r][c] ELSE NaN)
                       ELSE (IF r \in right.index THEN right.val[r][c] ELSE NaN)]]]

MUSM_finish(self, df_in, fit, x_vars, x_hat) ==
    LET reindexed == Reindex(x_hat, df_in.index)
        df_out == MergeOuter(ConcatKeys(reindexed, self.out_col_group), df_in)
        self2 == _set_info(self, fit, MkInfo(x_vars, self.model, df_out))
    IN IF ~NoDuplicates(df_out.columns)
       THEN Raised(self2, "DuplicateColumn", {})
       ELSE Returned(self2, df_out)

MultiindexUnsupervisedSkLearnModel_fit_predict_helper(self, df_in, fit, newId) ==
    LET \* `df = df_in[self._in_col_group].copy()` is overwritten by
        \* `df = df_in.copy()`: every column of df_in is a model input.
        df == df_in
        x_vars == df.columns
        non_nan_idx == DropnaIndex(df, x_vars)
        nans == _handle_nans(self, df.index, non_nan_idx)
        x_fit == transform_to_sklearn(df, non_nan_idx, x_vars)
        self1 == IF fit THEN [self EXCEPT !.model = ModelFit(newId, x_fit)] ELSE self
        x_transform == ModelTransform(self1.model, x_fit)
        num_cols == Len(x_transform[1])
        cols == [i \in 1..num_cols |-> IntLabel(i - 1)]
    IN IF Len(self.in_col_group) # NLevels(df_in) - 1
       THEN Raised(self, "InvalidConfig", {})
       ELSE IF HasColGroup(df_in, self.out_col_group)
       THEN Raised(self, "InvalidConfig", {})
       ELSE IF ~HasColGroup(df_in, self.in_col_group)
       THEN Raised(self, "KeyMissing", {})
       ELSE IF non_nan_idx = <<>> THEN Raised(self, "AssertionError", {})
       ELSE IF nans.err # "OK" THEN Raised(self, nans.err, nans.nan_idx)
       ELSE IF self1.model = NoModel THEN Raised(self1, "AttributeError", {})
       ELSE IF ~ModelAccepts(self1.model, x_fit) THEN Raised(self1, "ShapeMismatch", {})
       ELSE MUSM_finish(self1, df_in, fit, x_vars,
                        transform_from_sklearn(non_nan_idx, cols, x_transform))

Residualizer_fit_predict_helper(self, df_in, fit, newId) ==
    LET x_vars == self.x_vars
        non_nan_idx == DropnaIndex(df_in, x_vars)
        nans == _handle_nans(self, df_in.index, non_nan_idx)
        x_fit == transform_to_sklearn(df_in, non_nan_idx, x_vars)
        self1 == IF fit THEN [self EXCEPT !.model = ModelFit(newId, x_fit)] ELSE self
        x_transform == ModelTransform(self1.model, x_fit)
        x_hat == ModelInverseTransform(self1.model, x_transform)
        x_residual == transform_from_sklearn(non_nan_idx, x_vars,
                                             MatrixMinus(x_fit, x_hat))
        df_out == Reindex(x_residual, df_in.index)
    IN IF non_nan_idx = <<>> THEN Raised(self, "AssertionError", {})
       ELSE IF nans.err # "OK" THEN Raised(self, nans.err, nans.nan_idx)
       ELSE IF self1.model = NoModel THEN Raised(self1, "AttributeError", {})
       ELSE IF ~ModelAccepts(self1.model, x_fit) THEN Raised(self1, "ShapeMismatch", {})
       ELSE Returned(_set_info(self1, fit, MkInfo(x_vars, self1.model, df_out)),
                     df_out)

SIT_finish(self, df_in, fit, x_vars, trans_x_vars, trans_x_inv_trans) ==
    LET reindexed == Reindex(trans_x_inv_trans, df_in.index)
        merged == _apply_col_mode(df_in, reindexed, trans_x_vars, self.col_mode)
    IN IF merged.err # "OK" THEN Raised(self, merged.err, {})
       ELSE LET self2 == _set_info(self, fit, MkInfo(x_vars, self.model, merged.df_out))
            IN IF ~NoDuplicates(merged.df_out.columns)
               THEN Raised(self2, "DuplicateColumn", {})
               ELSE Returned(self2, merged.df_out)

SkLearnInverseTransformer_fit_predict_helper(self, df_in, fit, newId) ==
    LET x_vars == self.x_vars
        non_nan_idx == DropnaIndex(df_in, x_vars)
        nans == _handle_nans(self, df_in.index, non_nan_idx)
        x_fit == transform_to_sklearn(df_in, non_nan_idx, x_vars)
        self1 == IF fit THEN [self EXCEPT !.model = ModelFit(newId, x_fit)] ELSE self
        trans_x_vars == self.trans_x_vars
        trans_non_nan_idx == DropnaIndex(df_in, trans_x_vars)
        trans_nans == _handle_nans(self, df_in.index, trans_non_nan_idx)
        \* `df.loc[non_nan_idx]`, not `df.loc[trans_non_nan_idx]`.
        trans_x_fit == transform_to_sklearn(df_in, non_nan_idx, trans_x_vars)
        trans_x_inv_trans == ModelInverseTransform(self1.model, trans_x_fit)
    IN IF non_nan_idx = <<>> THEN Raised(self, "AssertionError", {})
       ELSE IF nans.err # "OK" THEN Raised(self, nans.err, nans.nan_idx)
       ELSE IF self1.model = NoModel THEN Raised(self1, "AttributeError", {})
       ELSE IF trans_non_nan_idx = <<>> THEN Raised(self1, "AssertionError", {})
       ELSE IF trans_nans.err # "OK"
       THEN Raised(self1, trans_nans.err, trans_nans.nan_idx)
       ELSE IF ~ModelAccepts(self1.model, trans_x_fit)
       THEN Raised(self1, "ShapeMismatch", {})
       ELSE IF ~ShapeOK(trans_non_nan_idx, x_vars, trans_x_inv_trans)
       THEN Raised(self1, "ShapeMismatch", {})
       ELSE SIT_finish(self1, df_in, fit, x_vars, trans_x_vars,
                       transform_from_sklearn(trans_non_nan_idx, x_vars,
                                              trans_x_inv_trans))

\* node._fit_predict_helper(df_in, fit) by class.  newId is the identity the
\* next constructed Model object gets.
_fit_predict_helper(self, df_in, fit, newId) ==
    CASE self.kind = "UnsupervisedSkLearnModel" ->
           UnsupervisedSkLearnModel_fit_predict_helper(self, df_in, fit, newId)
      [] self.kind = "MultiindexUnsupervisedSkLearnModel" ->
           MultiindexUnsupervisedSkLearnModel_fit_predict_helper(self, df_in, fit, newId)
      [] self.kind = "Residualizer" ->
           Residualizer_fit_predict_helper(self, df_in, fit, newId)
      [] self.kind = "SkLearnInverseTransformer" ->
           SkLearnInverseTransformer_fit_predict_helper(self, df_in, fit, newId)

\* fit that retrains the Model the node holds instead of constructing one.
fit_RefitsInPlace(self, df_in, newId) ==
    _fit_predict_helper(self, df_in, TRUE, IF self.model = NoModel THEN newId ELSE self.model.id)

\* node.fit(df_in)
fit(self, df_in, newId) ==
    _fit_predict_helper(self, df_in, TRUE, newId)

\* predict that takes the training branch of the helper.
predict_Retrains(self, df_in) ==
    _fit_predict_helper(self, df_in, TRUE, 0)

\* predict that returns its input table in place of the helper's output.
predict_ReturnsInput(self, df_in) ==
    LET r == _fit_predict_helper(self, df_in, FALSE, 0)
    IN IF r.err = "OK" THEN [r EXCEPT !.df_out = df_in] ELSE r

predict(self, df_in) ==
    _fit_predict_helper(self, df_in, FALSE, 0)

(***************************************************************************)
(* Fit state.  A fit state is a dict: a function from the keys it holds,   *)
(* among "_model" and "_info['fit']", to their values.                     *)
(***************************************************************************)
KModel == "_model"
KInfo == "_info['fit']"

\* get_fit_state reading the fit info with a default instead of by key.
get_fit_state_InfoDefault(self) ==
    [err |-> "OK",
     fit_state |-> (KModel :> self.model) @@ (KInfo :> self.info.fit)]

\* node.get_fit_state()
get_fit_state(self) ==
    IF ~self.info.fit.present
    THEN [err |-> "KeyMissing", fit_state |-> <<>>]
    ELSE [err |-> "OK",
          fit_state |-> (KModel :> self.model) @@ (KInfo :> self.info.fit)]

\* set_fit_state that restores the fit info and leaves the model alone.
set_fit_state_InfoOnly(self, fit_state) ==
    IF KModel \notin DOMAIN fit_state \/ KInfo \notin DOMAIN fit_state
    THEN [err |-> "KeyMissing", self |-> self]
    ELSE [err |-> "OK", self |-> [self EXCEPT !.info.fit = fit_state[KInfo]]]

\* node.set_fit_state(fit_state): the two assignments, in order.
set_fit_state(self, fit_state) ==
    IF KModel \notin DOMAIN fit_state
    THEN [err |-> "KeyMissing", self |-> self]
    ELSE LET self1 == [self EXCEPT !.model = fit_state[KModel]]
         IN IF KInfo \notin DOMAIN fit_state
            THEN [err |-> "KeyMissing", self |-> self1]
            ELSE [err |-> "OK", self |-> [self1 EXCEPT !.info.fit = fit_state[KInfo]]]

(***************************************************************************)
(* DAG-wide visitors.  dagNids is dag.dag.nodes() in iteration order and   *)
(* nodeOf[nid] is dag.get_node(nid).                                       *)
(***************************************************************************)
RECURSIVE dag_get_fit_state_from(_, _, _, _)
\* The loop of get_fit_state from position i, with the mapping built so far.
dag_get_fit_state_from(dagNids, nodeOf, i, fit_state) ==
    IF i > Len(dagNids) THEN [err |-> "OK", fit_state |-> fit_state]
    ELSE LET nid == dagNids[i]
             node == nodeOf[nid]
             node_fit_state == get_fit_state(node)
         IN IF ~IsFitPredictNode(node)
            THEN [err |-> "AssertionError", fit_state |-> <<>>]
            ELSE IF node_fit_state.err # "OK"
            THEN [err |-> node_fit_state.err, fit_state |-> <<>>]
            ELSE dag_get_fit_state_from(dagNids, nodeOf, i + 1,
                     Append(fit_state, <<nid, node_fit_state.fit_state>>))

\* get_fit_state(dag) with a loop that starts one node late.
dag_get_fit_state_SkipFirst(dagNids, nodeOf) ==
    dag_get_fit_state_from(dagNids, nodeOf, 2, <<>>)

\* get_fit_state(dag): an OrderedDict, as the sequence of its (key, value) pairs.
dag_get_fit_state(dagNids, nodeOf) ==
    dag_get_fit_state_from(dagNids, nodeOf, 1, <<>>)

RECURSIVE dag_set_fit_state_from(_, _, _, _)
\* The loop of set_fit_state from position i; nodeOf holds the nodes as the
\* loop has left them so far.  done counts the nodes whose set_fit_state
\* returned.
dag_set_fit_state_from(dagNids, nodeOf, i, fit_state) ==
    IF i > Len(dagNids) THEN [err |-> "OK", nodes |-> nodeOf, done |-> i - 1]
    ELSE LET nid == dagNids[i]
             node == nodeOf[nid]
         IN IF ~IsFitPredictNode(node)
            THEN [err |-> "AssertionError", nodes |-> nodeOf, done |-> i - 1]
            ELSE IF nid \notin DOMAIN fit_state
            THEN [err |-> "NodeSetMismatch", nodes |-> nodeOf, done |-> i - 1]
            ELSE LET r == set_fit_state(node, fit_state[nid])
                     nodeOf1 == [nodeOf EXCEPT ![nid] = r.self]
                 IN IF r.err # "OK"
                    THEN [err |-> r.err, nodes |-> nodeOf1, done |-> i - 1]
                    ELSE dag_set_fit_state_from(dagNids, nodeOf1, i + 1, fit_state)

\* set_fit_state(dag, fit_state): fit_state is a function from its keys.
dag_set_fit_state(dagNids, nodeOf, fit_state) ==
    IF Len(dagNids) # Cardinality(DOMAIN fit_state)
    THEN [err |-> "NodeSetMismatch", nodes |-> nodeOf, done |-> 0]
    ELSE dag_set_fit_state_from(dagNids, nodeOf, 1, fit_state)

(***************************************************************************)
(* State: the nodes by identifier; ran[n], whether the fit phase of node n *)
(* has run (a fit returned, or a set_fit_state returned); and the call the *)
(* caller made last, with what it was given and what it got back.  After a *)
(* call returns the caller takes the result (Observe) and makes its next   *)
(* call.  snapshot is the mapping of a get_fit_state(dag) the caller has   *)
(* kept: fit_state is the mapping as it reads now, taken is the mapping as *)
(* it read when get_fit_state returned it.                                 *)
(***************************************************************************)
VARIABLES nodes, ran, last, snapshot

vars == <<nodes, ran, last, snapshot>>

\* Node identifiers of the DAG, in iteration order, and one that is no node's.
DagNids == <<"n1", "n2">>

Nids == Range(DagNids)

OtherNid == "n3"

NoArgs == [kind |-> "absent"]

Call(op, nid, err, df_in, df_out, nan_idx, state, args) ==
    [op |-> op, nid |-> nid, err |-> err, df_in |-> df_in, df_out |-> df_out,
     nan_idx |-> nan_idx, state |-> state, args |-> args,
     before |-> nodes, ran_before |-> ran]

Idle ==
    [op |-> "idle", nid |-> "", err |-> "OK", df_in |-> NoTable, df_out |-> NoTable,
     nan_idx |-> {}, state |-> <<>>, args |-> NoArgs,
     before |-> [n \in Nids |-> NoNode], ran_before |-> [n \in Nids |-> FALSE]]

\* No mapping kept.
NoSnapshot ==
    [held |-> FALSE, fit_state |-> <<>>, taken |-> <<>>]

\* The identities of the Model objects that are referenced: by a node, or
\* by the mapping the caller has kept.
ModelIds ==
    {nodes[n].model.id : n \in {m \in Nids : IsFitPredictNode(nodes[m])}}
    \cup {snapshot.fit_state[i][2][KModel].id : i \in DOMAIN snapshot.fit_state}

\* The identity of the next Model object: the first one not referenced.
NewId ==
    CHOOSE i \in 1..(2 * Cardinality(Nids) + 1) :
        i \notin ModelIds /\ \A j \in 1..(i - 1) : j \in ModelIds

\* The kept mapping after a node was left holding `model`: an entry that
\* references the same object (fit_state["_model"] is self._model itself,
\* neither get_fit_state nor copy.copy copies it) shows what the object is
\* now.
SeenThrough(snap, model) ==
    [snap EXCEPT !.fit_state =
        [i \in DOMAIN snap.fit_state |->
            IF model # NoModel /\ snap.fit_state[i][2][KModel].id = model.id
            THEN <<snap.fit_state[i][1],
                   [snap.fit_state[i][2] EXCEPT ![KModel] = model]>>
            ELSE snap.fit_state[i]]]

\* An OrderedDict as the function from its keys.
AsMapping(od) ==
    [k \in {od[i][1] : i \in DOMAIN od} |->
        od[CHOOSE i \in DOMAIN od : od[i][1] = k][2]]

\* Constructor arguments.
XVarsArgs == {None, <<A>>, <<B>>, <<A, B>>}
ColModeArgs == {"None", "replace_all", "merge_all", "replace_selected"}
NanModeArgs == {"None", "raise", "drop", "ignore"}
ColGroupArgs ==
    { <<<<"g1">>, <<"f">>>>, <<<<"g1">>, <<"g2">>>>, <<<<"g1">>, <<"f", "y">>>>,
      <<<<"g1", "x">>, <<"f", "y">>>>, <<<<"g1", "x">>, <<"f">>>> }
TransVarsArgs == { <<<<A>>, <<B>>>>, <<<<A>>, <<A>>>>, <<<<A, B>>, <<B>>>> }

Args(kind, x_vars, trans_x_vars, in_col_group, out_col_group, col_mode, nan_mode) ==
    [kind |-> kind, x_vars |-> x_vars, trans_x_vars |-> trans_x_vars,
     in_col_group |-> in_col_group, out_col_group |-> out_col_group,
     col_mode |-> col_mode, nan_mode |-> nan_mode]

PlainArgs == [kind |-> "Node"]

NodeArgs ==
    {PlainArgs}
    \cup {Args("UnsupervisedSkLearnModel", x, None, None, None, c, m) :
            x \in XVarsArgs, c \in ColModeArgs, m \in NanModeArgs}
    \cup {Args("MultiindexUnsupervisedSkLearnModel", None, None, g[1], g[2], "None", m) :
            g \in ColGroupArgs, m \in NanModeArgs}
    \cup {Args("Residualizer", x, None, None, None, "None", m) :
            x \in XVarsArgs \ {None}, m \in NanModeArgs}
    \cup {Args("SkLearnInverseTransformer", v[1], v[2], None, None, c, m) :
            v \in TransVarsArgs, c \in ColModeArgs, m \in NanModeArgs}

\* The constructor of the class args.kind names.
NodeInit(args) ==
    CASE args.kind = "Node" -> PlainNode_init
      [] args.kind = "UnsupervisedSkLearnModel" ->
           UnsupervisedSkLearnModel_init(args.x_vars, args.col_mode, args.nan_mode)
      [] args.kind = "MultiindexUnsupervisedSkLearnModel" ->
           MultiindexUnsupervisedSkLearnModel_init(args.in_col_group,
                                                   args.out_col_group, args.nan_mode)
      [] args.kind = "Residualizer" -> Residualizer_init(args.x_vars, args.nan_mode)
      [] args.kind = "SkLearnInverseTransformer" ->
           SkLearnInverseTransformer_init(args.x_vars, args.trans_x_vars,
                                          args.col_mode, args.nan_mode)

\* The tables a node of this class is run on.
TablesFor(node) ==
    IF node.kind = "MultiindexUnsupervisedSkLearnModel" THEN MultiTables
    ELSE IF node.kind = "UnsupervisedSkLearnModel" /\ node.x_vars = <<B>>
    THEN FlatTables \cup IntTables
    ELSE FlatTables

\* The nodes a DAG is built from here: one configuration of each class.
DagArgs ==
    { PlainArgs,
      Args("UnsupervisedSkLearnModel", None, None, None, None, "None", "drop"),
      Args("MultiindexUnsupervisedSkLearnModel", None, None, <<"g1">>, <<"f">>,
           "None", "drop"),
      Args("Residualizer", <<A>>, None, None, None, "None", "None"),
      Args("SkLearnInverseTransformer", <<A>>, <<B>>, None, None, "None", "drop") }

\* A node as its constructor left it.
Fresh(node) == [node EXCEPT !.model = NoModel, !.info = EmptyInfo]

\* The fit/predict nodes of a DAG built here share one class and
\* configuration; any node of it may be a plain node instead.
DagArgsNow ==
    LET built == {m \in Nids : IsFitPredictNode(nodes[m])}
    IN IF built = {} THEN DagArgs
       ELSE {PlainArgs}
            \cup {a \in DagArgs : \E m \in built : NodeInit(a).node = Fresh(nodes[m])}

Init ==
    /\ nodes = [n \in Nids |-> NoNode]
    /\ ran = [n \in Nids |-> FALSE]
    /\ last = Idle
    /\ snapshot = NoSnapshot

Observe ==
    /\ last.op # "idle"
    /\ last' = Idle
    /\ UNCHANGED <<nodes, ran, snapshot>>

Construct(n, argsSet) ==
    /\ last.op = "idle"
    /\ nodes[n] = NoNode
    /\ \E args \in argsSet :
        LET r == NodeInit(args)
        IN /\ nodes' = [nodes EXCEPT ![n] = r.node]
           /\ last' = Call("init", n, r.err, NoTable, NoTable, {}, <<>>, args)
    /\ UNCHANGED <<ran, snapshot>>

Fit(n, tables) ==
    /\ last.op = "idle"
    /\ IsFitPredictNode(nodes[n])
    /\ \E df_in \in tables :
        LET r == fit(nodes[n], df_in, NewId)
        IN /\ nodes' = [nodes EXCEPT ![n] = r.self]
           /\ ran' = [ran EXCEPT ![n] = @ \/ r.err = "OK"]
           /\ last' = Call("fit", n, r.err, df_in, r.df_out, r.nan_idx, <<>>, NoArgs)
           /\ snapshot' = SeenThrough(snapshot, r.self.model)

Predict(n, tables) ==
    /\ last.op = "idle"
    /\ IsFitPredictNode(nodes[n])
    /\ \E df_in \in tables :
        LET r == predict(nodes[n], df_in)
        IN /\ nodes' = [nodes EXCEPT ![n] = r.self]
           /\ last' = Call("predict", n, r.err, df_in, r.df_out, r.nan_idx, <<>>,
                           NoArgs)
    /\ UNCHANGED <<ran, snapshot>>

NodeGetFitState(n) ==
    /\ last.op = "idle"
    /\ IsFitPredictNode(nodes[n])
    /\ LET r == get_fit_state(nodes[n])
       IN last' = Call("get_fit_state", n, r.err, NoTable, NoTable, {}, r.fit_state,
                       NoArgs)
    /\ UNCHANGED <<nodes, ran, snapshot>>

\* The fit states a caller can hold: what get_fit_state returns for a node,
\* and the same dict with one key missing.
FitStatesReturned ==
    {get_fit_state(nodes[m]).fit_state :
        m \in {k \in Nids : /\ IsFitPredictNode(nodes[k])
                             /\ get_fit_state(nodes[k]).err = "OK"}}

FitStatesHeld ==
    FitStatesReturned
    \cup {(KModel :> s[KModel]) : s \in FitStatesReturned}
    \cup {(KInfo :> s[KInfo]) : s \in FitStatesReturned}

NodeSetFitState(n) ==
    /\ last.op = "idle"
    /\ IsFitPredictNode(nodes[n])
    /\ \E fit_state \in FitStatesHeld :
        LET r == set_fit_state(nodes[n], fit_state)
        IN /\ nodes' = [nodes EXCEPT ![n] = r.self]
           /\ ran' = [ran EXCEPT ![n] = @ \/ r.err = "OK"]
           /\ last' = Call("set_fit_state", n, r.err, NoTable, NoTable, {}, fit_state,
                           NoArgs)
    /\ UNCHANGED snapshot

\* The DAG exists once its nodes are constructed.
DagBuilt == \A n \in Nids : nodes[n] # NoNode

DagGetFitState ==
    /\ last.op = "idle"
    /\ DagBuilt
    /\ LET r == dag_get_fit_state(DagNids, nodes)
       IN last' = Call("dag_get_fit_state", "", r.err, NoTable, NoTable, {},
                       r.fit_state, NoArgs)
    /\ UNCHANGED <<nodes, ran, snapshot>>

\* The mappings a caller can pass: any key set among the DAG's identifiers
\* and one more, each DAG key with a fit state with or without its info.
DagFitStates ==
    LET held == FitStatesReturned \cup {(KModel :> s[KModel]) : s \in FitStatesReturned}
        any == CHOOSE s \in FitStatesReturned : TRUE
    IN UNION {[K -> held] : K \in SUBSET Nids}
       \cup UNION {{f @@ (OtherNid :> any) : f \in [K -> held]} : K \in SUBSET Nids}

DagSetFitState ==
    /\ last.op = "idle"
    /\ DagBuilt
    /\ FitStatesReturned # {}
    /\ \E fit_state \in DagFitStates :
        LET r == dag_set_fit_state(DagNids, nodes, fit_state)
        IN /\ nodes' = r.nodes
           /\ ran' = [n \in Nids |->
                        ran[n] \/ \E i \in 1..r.done : DagNids[i] = n]
           /\ last' = Call("dag_set_fit_state", "", r.err, NoTable, NoTable, {},
                           fit_state, NoArgs)
    /\ UNCHANGED snapshot

\* get_fit_state(dag), the caller keeping the mapping it returns.  The
\* caller keeps one mapping.
TakeSnapshot ==
    /\ last.op = "idle"
    /\ DagBuilt
    /\ ~snapshot.held
    /\ LET r == dag_get_fit_state(DagNids, nodes)
       IN /\ last' = Call("dag_get_fit_state", "", r.err, NoTable, NoTable, {},
                          r.fit_state, NoArgs)
          /\ snapshot' = IF r.err = "OK"
                         THEN [held |-> TRUE, fit_state |-> r.fit_state,
                               taken |-> r.fit_state]
                         ELSE snapshot
    /\ UNCHANGED <<nodes, ran>>

\* set_fit_state(dag, fit_state) with the mapping the caller has kept.
InjectSnapshot ==
    /\ last.op = "idle"
    /\ DagBuilt
    /\ snapshot.held
    /\ LET fit_state == AsMapping(snapshot.fit_state)
           r == dag_set_fit_state(DagNids, nodes, fit_state)
       IN /\ nodes' = r.nodes
          /\ ran' = [n \in Nids |->
                       ran[n] \/ \E i \in 1..r.done : DagNids[i] = n]
          /\ last' = Call("dag_set_fit_state", "", r.err, NoTable, NoTable, {},
                          fit_state, NoArgs)
    /\ UNCHANGED snapshot

\* One node of any class and configuration, through its whole life.
Next ==
    \/ Observe
    \/ Construct("n1", NodeArgs)
    \/ Fit("n1", TablesFor(nodes["n1"]))
    \/ Predict("n1", TablesFor(nodes["n1"]))
    \/ NodeGetFitState("n1")
    \/ NodeSetFitState("n1")

Spec == Init /\ [][Next]_vars

\* A DAG of two nodes, with the node-level and the DAG-wide state calls.
NextDag ==
    \/ Observe
    \/ \E n \in Nids : Construct(n, DagArgsNow)
    \/ \E n \in Nids : Fit(n, TablesFor(nodes[n]))
    \/ \E n \in Nids : NodeGetFitState(n)
    \/ \E n \in Nids : NodeSetFitState(n)
    \/ DagGetFitState
    \/ DagSetFitState

SpecDag == Init /\ [][NextDag]_vars

\* The tables the nodes of that DAG are run on: two without a missing value,
\* which train different models.
SnapRows ==
    { [r \in RowKeys |-> <<Num(1), Num(1)>>],
      [r \in RowKeys |-> <<Num(2), Num(2)>>] }

SnapTables(node) ==
    IF node.kind = "MultiindexUnsupervisedSkLearnModel"
    THEN {MkTable(<<G1X, G2X>>, rows) : rows \in SnapRows}
    ELSE {MkTable(<<A, B>>, rows) : rows \in SnapRows}

\* Number of Model objects that may be referenced at once in that DAG: a fit
\* that would construct one more is not made.
MaxModels == 3

\* A DAG of two nodes that are fitted and run, with a mapping of the fit
\* states taken at some point and injected at a later one.
NextSnap ==
    \/ Observe
    \/ \E n \in Nids : Construct(n, DagArgsNow)
    \/ \E n \in Nids : NewId <= MaxModels /\ Fit(n, SnapTables(nodes[n]))
    \/ \E n \in Nids : Predict(n, SnapTables(nodes[n]))
    \/ TakeSnapshot
    \/ InjectSnapshot

SpecSnap == Init /\ [][NextSnap]_vars

(***************************************************************************)
(* What the specification calls the selection of a node on a table, the    *)
(* rows of it with a missing value, and the transformed columns.           *)
(***************************************************************************)
SelectedCols(node, df) ==
    CASE node.kind = "UnsupervisedSkLearnModel" ->
           Range(IF node.x_vars = None THEN df.columns ELSE node.x_vars)
      [] node.kind = "Residualizer" -> Range(node.x_vars)
      [] node.kind = "SkLearnInverseTransformer" ->
           Range(node.x_vars) \cup Range(node.trans_x_vars)
      [] node.kind = "MultiindexUnsupervisedSkLearnModel" ->
           {c \in Range(df.columns) :
               /\ Len(node.in_col_group) <= Len(c)
               /\ SubSeq(c, 1, Len(node.in_col_group)) = node.in_col_group}

RowsMissing(df, cols) == {r \in df.index : \E c \in cols : IsNaN(df.val[r][c])}

TransformedCols(node, df_in, df_out) ==
    CASE node.kind = "Residualizer" -> Range(df_out.columns)
      [] node.kind = "SkLearnInverseTransformer" -> Range(node.x_vars)
      [] OTHER -> Range(df_out.columns) \ Range(df_in.columns)

\* The configuration of the node suits the table: the failures of a call are
\* then those of the NaN policy and of the model.
WellConfigured(node, df) ==
    /\ node.kind = "MultiindexUnsupervisedSkLearnModel" =>
          /\ Len(node.in_col_group) = NLevels(df) - 1
          /\ HasColGroup(df, node.in_col_group)
          /\ ~HasColGroup(df, node.out_col_group)
    /\ node.col_mode \in {"None", "replace_all"}

IsFitOrPredict == last.op \in {"fit", "predict"}

\* A call the NaN claims are about: fit, or predict on a node whose fit phase
\* has run, with a suitable configuration, on a table with at least one row
\* that has no missing value among the selected columns.
NaNClaimCall ==
    /\ IsFitOrPredict
    /\ last.op = "predict" => last.ran_before[last.nid]
    /\ WellConfigured(last.before[last.nid], last.df_in)
    /\ RowsMissing(last.df_in, SelectedCols(last.before[last.nid], last.df_in))
          # last.df_in.index

\* The node the last call was made on, before and after the call.
NodeBefore == last.before[last.nid]
NodeAfter == nodes[last.nid]

(***************************************************************************)
(* Claims.                                                                 *)
(***************************************************************************)

\* C1: predict on a node of any of the four classes that never completed a
\* fit and never had set_fit_state applied fails with NotFitted, and the
\* node is still unfitted afterwards.  (Stated for tables with no missing
\* value.)
C1_PredictUnfittedFailsNotFitted ==
    (/\ last.op = "predict"
     /\ ~last.ran_before[last.nid]
     /\ RowsMissing(last.df_in, Range(last.df_in.columns)) = {}) =>
        /\ last.err = "NotFitted"
        /\ NodeAfter.model = NoModel
        /\ ~NodeAfter.info.fit.present

\* C5: with nan_mode = "raise", fit or predict on a table with a missing
\* value in a selected column fails with NaNDetected carrying exactly the
\* rows that have a missing value among the selected columns; a table with
\* none never fails with NaNDetected.  (Stated for tables with at least one
\* complete row.)
C5_RaiseReportsExactlyMissingRows ==
    (NaNClaimCall /\ NodeBefore.nan_mode = "raise") =>
        LET miss == RowsMissing(last.df_in, SelectedCols(NodeBefore, last.df_in))
        IN IF miss # {}
           THEN last.err = "NaNDetected" /\ last.nan_idx = miss
           ELSE last.err # "NaNDetected"

\* C6: with nan_mode = "drop", fit (and predict on a fitted node) on a table
\* with a missing value in a selected column succeeds; the output has the
\* row keys of the input, and its transformed columns are missing at exactly
\* the rows that have a missing value among the selected columns.  (Stated
\* for tables with at least one complete row.)
C6_DropKeepsRowsAndMarksDropped ==
    LET miss == RowsMissing(last.df_in, SelectedCols(NodeBefore, last.df_in))
    IN (NaNClaimCall /\ NodeBefore.nan_mode = "drop" /\ miss # {}) =>
        /\ last.err = "OK"
        /\ last.df_out.index = last.df_in.index
        /\ \A r \in last.df_out.index :
             \A c \in TransformedCols(NodeBefore, last.df_in, last.df_out) :
                 IsNaN(last.df_out.val[r][c]) <=> r \in miss

\* C10: constructing SkLearnInverseTransformer with x_vars and trans_x_vars
\* that share a column fails with InvalidConfig and no node (so no Model)
\* comes to exist; with disjoint columns construction fails only for a bad
\* col_mode.
C10_OverlapRejectedAtConstruction ==
    (last.op = "init" /\ last.args.kind = "SkLearnInverseTransformer") =>
        IF Range(last.args.x_vars) \cap Range(last.args.trans_x_vars) # {}
        THEN last.err = "InvalidConfig" /\ nodes = last.before
        ELSE (last.err = "OK" /\ NodeAfter.model = NoModel)
             \/ (last.err = "InvalidConfig"
                 /\ last.args.col_mode \notin {"None", "replace_all", "merge_all"})

C10_Witness ==
    /\ last.op = "init"
    /\ last.args.kind = "SkLearnInverseTransformer"
    /\ Range(last.args.x_vars) \cap Range(last.args.trans_x_vars) # {}
    /\ last.args.col_mode = "merge_all"
    /\ last.err = "InvalidConfig"
    /\ NodeAfter = NoNode

(***************************************************************************)
(* Claims about fit state, on two nodes and the DAG they form.             *)
(***************************************************************************)

\* The node named m was fitted, the last call restored the fit state that
\* get_fit_state returns for m into a freshly constructed node of the same
\* class and configuration, and the call returned.
C2_Restored(m) ==
    /\ last.op = "set_fit_state"
    /\ last.err = "OK"
    /\ m # last.nid
    /\ IsFitPredictNode(last.before[m])
    /\ last.ran_before[m]
    /\ get_fit_state(last.before[m]).err = "OK"
    /\ last.state = get_fit_state(last.before[m]).fit_state
    /\ ~last.ran_before[last.nid]
    /\ NodeBefore = Fresh(last.before[m])

\* C2: after set_fit_state(get_fit_state(N)) on a freshly constructed node N2
\* of the same class and configuration as the fitted node N, predict on N2
\* gives on every table what predict on N gives: the same output, or the
\* same failure.
C2_RoundTripPredictsTheSame ==
    \A m \in Nids :
        C2_Restored(m) =>
            \A df_in \in TablesFor(NodeAfter) :
                LET p2 == predict(NodeAfter, df_in)
                    p1 == predict(nodes[m], df_in)
                IN /\ p2.err = p1.err
                   /\ p2.df_out = p1.df_out
                   /\ p2.nan_idx = p1.nan_idx

C2_Witness ==
    \E m \in Nids :
        /\ C2_Restored(m)
        /\ \E df_in \in TablesFor(NodeAfter) :
              /\ predict(NodeAfter, df_in).err = "OK"
              /\ predict(NodeAfter, df_in).df_out # df_in

\* C3: set_fit_state on a DAG (of fit/predict nodes) fails with
\* NodeSetMismatch for every mapping whose key set differs from the DAG's
\* node identifiers, and fails so only for those.
C3_KeySetMismatchRejected ==
    (/\ last.op = "dag_set_fit_state"
     /\ \A n \in Nids : IsFitPredictNode(last.before[n])) =>
        (DOMAIN last.state # Nids <=> last.err = "NodeSetMismatch")

\* C4: set_fit_state on a DAG is atomic: when it returns every node holds
\* the state the mapping gives it, and when it fails no node has changed.
\* (Stated for mappings whose node states hold both keys.)
C4_DagSetFitStateAtomic ==
    (/\ last.op = "dag_set_fit_state"
     /\ \A k \in DOMAIN last.state : DOMAIN last.state[k] = {KModel, KInfo}) =>
        IF last.err = "OK"
        THEN \A n \in Nids :
                /\ nodes[n].model = last.state[n][KModel]
                /\ nodes[n].info.fit = last.state[n][KInfo]
        ELSE nodes = last.before

\* C7: set_fit_state on a node with a state that lacks the fit info fails
\* with KeyMissing and leaves the model and the fit info of the node as
\* they were.
C7_SetFitStateValidatesFirst ==
    (last.op = "set_fit_state" /\ KInfo \notin DOMAIN last.state) =>
        /\ last.err = "KeyMissing"
        /\ NodeAfter.model = NodeBefore.model
        /\ NodeAfter.info.fit = NodeBefore.info.fit

C9_DagGetFitStateInNodeOrder ==
    last.op = "dag_get_fit_state" =>
        /\ (\A n \in Nids : IsFitPredictNode(nodes[n]) /\ last.ran_before[n]) =>
              /\ last.err = "OK"
              /\ [i \in DOMAIN last.state |-> last.state[i][1]] = DagNids
              /\ \A i \in DOMAIN last.state :
                    last.state[i][2] =
                        (KModel :> nodes[DagNids[i]].model)
                        @@ (KInfo :> nodes[DagNids[i]].info.fit)
        /\ (\E n \in Nids : ~IsFitPredictNode(nodes[n])) => last.err # "OK"

C9_Witness ==
    /\ last.op = "dag_get_fit_state"
    /\ last.err = "OK"
    /\ Len(last.state) = Len(DagNids)
    /\ last.state[1][2][KModel] # last.state[2][2][KModel]

C9_NonFitPredict_Witness ==
    /\ last.op = "dag_get_fit_state"
    /\ IsFitPredictNode(nodes[DagNids[1]])
    /\ last.ran_before[DagNids[1]]
    /\ ~IsFitPredictNode(nodes[DagNids[2]])
    /\ last.err = "AssertionError"

(***************************************************************************)
(* Claims about construction and configuration.                            *)
(***************************************************************************)

\* C11: constructing MultiindexUnsupervisedSkLearnModel with an input prefix
\* and an output prefix of different depth fails with InvalidConfig and no
\* node comes to exist; prefixes of equal depth are accepted and kept.
C11_DepthMismatchRejected ==
    (last.op = "init" /\ last.args.kind = "MultiindexUnsupervisedSkLearnModel") =>
        IF Len(last.args.in_col_group) # Len(last.args.out_col_group)
        THEN last.err = "InvalidConfig" /\ nodes = last.before
        ELSE /\ last.err = "OK"
             /\ NodeAfter.in_col_group = last.args.in_col_group
             /\ NodeAfter.out_col_group = last.args.out_col_group

C11_Witness ==
    /\ last.op = "init"
    /\ last.args.kind = "MultiindexUnsupervisedSkLearnModel"
    /\ Len(last.args.in_col_group) = 2
    /\ Len(last.args.out_col_group) = 1
    /\ last.err = "InvalidConfig"
    /\ NodeAfter = NoNode

C11_EqualDepth_Witness ==
    /\ last.op = "init"
    /\ last.args.kind = "MultiindexUnsupervisedSkLearnModel"
    /\ Len(last.args.in_col_group) = Len(last.args.out_col_group)
    /\ last.err = "OK"

\* C12: fit and predict on a node whose nan_mode is neither "raise" nor
\* "drop" fail with InvalidConfig on every table, and leave the Model of the
\* node as it was.
C12_BadNanModeAlwaysInvalidConfig ==
    (IsFitOrPredict /\ NodeBefore.nan_mode \notin {"raise", "drop"}) =>
        /\ last.err = "InvalidConfig"
        /\ NodeAfter.model = NodeBefore.model

(***************************************************************************)
(* Claims about the fit and predict paths of one node.                     *)
(***************************************************************************)

\* What fit on the table of the last call gives on a freshly constructed node
\* of the configuration of the node called, its Model getting identity id.
FreshlyFitted(id) == fit(Fresh(NodeBefore), last.df_in, id)

\* The last call was a predict on a table that the Model of the node is
\* what training on gives.
PredictOnTrainingTable ==
    /\ last.op = "predict"
    /\ last.ran_before[last.nid]
    /\ FreshlyFitted(NodeBefore.model.id).err = "OK"
    /\ FreshlyFitted(NodeBefore.model.id).self.model = NodeBefore.model

\* C13: a node fitted on a table A returns from predict(A) the table its
\* fit(A) returned, which is also what predict(A) returns on another freshly
\* constructed node of the same configuration fitted on A.
C13_FitPredictSymmetry ==
    /\ (last.op = "fit" /\ last.err = "OK") =>
          /\ predict(NodeAfter, last.df_in).err = "OK"
          /\ predict(NodeAfter, last.df_in).df_out = last.df_out
          /\ FreshlyFitted(NewId).err = "OK"
          /\ predict(FreshlyFitted(NewId).self, last.df_in).df_out = last.df_out
    /\ PredictOnTrainingTable =>
          /\ last.err = "OK"
          /\ last.df_out = FreshlyFitted(NodeBefore.model.id).df_out

C13_Witness ==
    /\ PredictOnTrainingTable
    /\ last.err = "OK"
    /\ last.df_out # last.df_in
    /\ \E r \in last.df_out.index : \E c \in Range(last.df_out.columns) :
          IsNaN(last.df_out.val[r][c])
    /\ \E r \in last.df_out.index : \E c \in Range(last.df_out.columns) :
          ~IsNaN(last.df_out.val[r][c]) /\ last.df_out.val[r][c] # Num(0)

\* The nodes that take col_mode; the columns the column mode is applied
\* against; and the labels of the transformed columns.
TakesColMode(node) ==
    node.kind \in {"UnsupervisedSkLearnModel", "SkLearnInverseTransformer"}

TargetCols(node, df) ==
    IF node.kind = "SkLearnInverseTransformer" THEN node.trans_x_vars
    ELSE IF node.x_vars = None THEN df.columns ELSE node.x_vars

TransformedLabels(node, df) ==
    IF node.kind = "SkLearnInverseTransformer" THEN node.x_vars
    ELSE [i \in 1..Len(TargetCols(node, df)) |-> IntLabel(i - 1)]

\* A transformed column has the label of an original non-target column.
NameCollision(node, df) ==
    Range(TransformedLabels(node, df))
        \cap (Range(df.columns) \ Range(TargetCols(node, df))) # {}

\* The last call gets as far as the column mode: the NaN policy lets the
\* table through and the node has a Model to use.
ReachesColMode ==
    /\ IsFitOrPredict
    /\ TakesColMode(NodeBefore)
    /\ NodeBefore.nan_mode \in {"raise", "drop"}
    /\ RowsMissing(last.df_in, SelectedCols(NodeBefore, last.df_in)) = {}
    /\ last.op = "predict" => NodeBefore.model # NoModel

\* C14: with col_mode = "replace_all" the output columns are exactly the
\* transformed columns; with "merge_all" they are the transformed and the
\* original columns with no duplicate label, the original non-target columns
\* keep their values, and a transformed column with the label of an original
\* non-target column makes the call fail with DuplicateColumn.
C14_ColumnMergeLaws ==
    (IsFitOrPredict /\ TakesColMode(NodeBefore)) =>
        LET df_in == last.df_in
            df_out == last.df_out
            labels == TransformedLabels(NodeBefore, df_in)
            targets == Range(TargetCols(NodeBefore, df_in))
        IN /\ (last.err = "OK" /\ NodeBefore.col_mode = "replace_all") =>
                 df_out.columns = labels
           /\ (last.err = "OK" /\ NodeBefore.col_mode = "merge_all") =>
                 /\ Range(df_out.columns) = Range(labels) \cup Range(df_in.columns)
                 /\ NoDuplicates(df_out.columns)
                 /\ df_out.index = df_in.index
                 /\ \A r \in df_in.index : \A c \in Range(df_in.columns) \ targets :
                       df_out.val[r][c] = df_in.val[r][c]
           /\ (/\ ReachesColMode
               /\ NodeBefore.col_mode = "merge_all"
               /\ NameCollision(NodeBefore, df_in)) =>
                 last.err = "DuplicateColumn"

C14_Witness ==
    /\ last.op = "fit"
    /\ NodeBefore.kind = "UnsupervisedSkLearnModel"
    /\ NodeBefore.col_mode = "merge_all"
    /\ NodeBefore.x_vars = <<A>>
    /\ last.err = "OK"
    /\ last.df_out.columns = <<A, B, IntLabel(0)>>
    /\ \E r \in last.df_in.index : IsNaN(last.df_in.val[r][B])

C14_Collision_Witness ==
    /\ last.op = "fit"
    /\ NodeBefore.kind = "UnsupervisedSkLearnModel"
    /\ NodeBefore.col_mode = "merge_all"
    /\ ReachesColMode
    /\ NameCollision(NodeBefore, last.df_in)
    /\ last.err = "DuplicateColumn"

C14_ReplaceAll_Witness ==
    /\ last.op = "predict"
    /\ NodeBefore.kind = "SkLearnInverseTransformer"
    /\ NodeBefore.col_mode = "replace_all"
    /\ last.err = "OK"
    /\ last.df_out.columns = <<A>>

\* C15: a fit call that fails with NaNDetected, DuplicateColumn or
\* InvalidConfig leaves the Model of the node and its fit and predict infos
\* as they were before the call.
C15_FailedFitLeavesNodeUnchanged ==
    (/\ last.op = "fit"
     /\ last.err \in {"NaNDetected", "DuplicateColumn", "InvalidConfig"}) =>
        /\ NodeAfter.model = NodeBefore.model
        /\ NodeAfter.info = NodeBefore.info

(***************************************************************************)
(* Claims about the rows and columns a node selects.                       *)
(***************************************************************************)

\* C16: in SkLearnInverseTransformer the rows given to inverse_transform are
\* the rows with no missing value among trans_x_vars, whatever rows are
\* missing in x_vars, and each inverse-transformed row is labelled with its
\* own row key: under nan_mode = "drop" the call returns, and the output has,
\* at every row complete in trans_x_vars, the inverse transform of that row,
\* and a missing value at the other rows.
C16_TransRowsResolvedIndependently ==
    (/\ IsFitOrPredict
     /\ NodeBefore.kind = "SkLearnInverseTransformer"
     /\ NodeBefore.nan_mode = "drop"
     /\ NodeBefore.col_mode = "replace_all"
     /\ last.op = "predict" => last.ran_before[last.nid]
     /\ RowsMissing(last.df_in, Range(NodeBefore.x_vars)) # last.df_in.index
     /\ RowsMissing(last.df_in, Range(NodeBefore.trans_x_vars)) # last.df_in.index) =>
        LET x_vars == NodeBefore.x_vars
            trans_x_vars == NodeBefore.trans_x_vars
            dropped == RowsMissing(last.df_in, Range(trans_x_vars))
        IN /\ last.err = "OK"
           /\ last.df_out.index = last.df_in.index
           /\ last.df_out.columns = x_vars
           /\ \A r \in last.df_in.index : \A j \in DOMAIN x_vars :
                 last.df_out.val[r][x_vars[j]] =
                    IF r \in dropped THEN NaN
                    ELSE Num(last.df_in.val[r][trans_x_vars[j]][1]
                             + NodeAfter.model.params[j])

\* The info the last call recorded, by its phase.
InfoOfCall ==
    IF last.op = "fit" THEN NodeAfter.info.fit ELSE NodeAfter.info.predict

\* C17: in MultiindexUnsupervisedSkLearnModel the selection is the columns
\* under the input prefix: a table with no missing value among them passes
\* the NaN policy whatever the other columns hold, and the matrix given to
\* the Model and the recorded model_x_vars have one column per selected
\* column.
C17_SelectionIsInputSubHierarchy ==
    (/\ IsFitOrPredict
     /\ NodeBefore.kind = "MultiindexUnsupervisedSkLearnModel"
     /\ NodeBefore.nan_mode \in {"raise", "drop"}
     /\ WellConfigured(NodeBefore, last.df_in)
     /\ last.op = "predict" => last.ran_before[last.nid]) =>
        LET sel == SelectedCols(NodeBefore, last.df_in)
        IN /\ RowsMissing(last.df_in, sel) = {} => last.err = "OK"
           /\ last.err = "OK" =>
                 /\ Len(InfoOfCall.model_x_vars) = Cardinality(sel)
                 /\ Len(NodeAfter.model.params) = Cardinality(sel)

(***************************************************************************)
(* Claims about the Model and the infos a node holds over its life.        *)
(***************************************************************************)

\* C18: no two distinct nodes hold the same Model instance.  (Stated for the
\* states a call that returned leaves.)
C18_ModelExclusivity ==
    \A n, m \in Nids :
        (/\ last.err = "OK"
         /\ n # m
         /\ IsFitPredictNode(nodes[n])
         /\ IsFitPredictNode(nodes[m])
         /\ nodes[n].model # NoModel) =>
            nodes[n].model.id # nodes[m].model.id

\* C19: predict leaves the Model of the node as it is, whether it returns or
\* fails; a fit that returns leaves the node with a newly constructed Model,
\* one that no node held before the call, trained as on a freshly constructed
\* node: nothing of the previous Model is kept.
C19_RetrainedIffFit ==
    /\ last.op = "predict" => NodeAfter.model = NodeBefore.model
    /\ (last.op = "fit" /\ last.err = "OK") =>
          /\ NodeAfter.model # NoModel
          /\ \A n \in Nids :
                IsFitPredictNode(last.before[n]) =>
                    NodeAfter.model.id # last.before[n].model.id
          /\ NodeAfter.model.params
                = FreshlyFitted(NodeAfter.model.id).self.model.params

C19_Witness ==
    /\ last.op = "fit"
    /\ last.err = "OK"
    /\ NodeBefore.model # NoModel
    /\ NodeAfter.model.params # NodeBefore.model.params

C19_Predict_Witness ==
    /\ last.op = "predict"
    /\ last.err = "OK"
    /\ NodeBefore.model # NoModel
    /\ \E r \in last.df_in.index : \E c \in Range(last.df_in.columns) :
          ~IsNaN(last.df_in.val[r][c]) /\ last.df_in.val[r][c] # Num(NodeBefore.model.params[1])

\* The info of the last call records the Model the node holds and the table
\* the call returned.
RecordsThisCall(info) ==
    /\ info.present
    /\ info.model_attributes = NodeAfter.model.params
    /\ info.df_out_info = get_df_info(last.df_out)

\* C20: the infos are kept per phase.  A fit that returns leaves as fit info
\* the info of that call and the predict info as it was; a predict that
\* returns leaves as predict info the info of that call and the fit info as
\* it was; a set_fit_state that returns installs the fit info it was given
\* and leaves the predict info; get_fit_state changes neither.
C20_InfoKeptPerPhase ==
    (last.err = "OK" /\ last.op \in {"fit", "predict", "set_fit_state", "get_fit_state"}) =>
        /\ last.op = "fit" =>
              /\ RecordsThisCall(NodeAfter.info.fit)
              /\ NodeAfter.info.predict = NodeBefore.info.predict
        /\ last.op = "predict" =>
              /\ RecordsThisCall(NodeAfter.info.predict)
              /\ NodeAfter.info.fit = NodeBefore.info.fit
        /\ last.op = "set_fit_state" =>
              /\ NodeAfter.info.fit = last.state[KInfo]
              /\ NodeAfter.info.predict = NodeBefore.info.predict
        /\ last.op = "get_fit_state" =>
              /\ NodeAfter.info = NodeBefore.info
              /\ last.state[KInfo] = NodeAfter.info.fit

C20_Witness ==
    /\ last.op = "fit"
    /\ last.err = "OK"
    /\ NodeBefore.info.fit.present
    /\ NodeBefore.info.predict.present
    /\ NodeAfter.info.fit # NodeBefore.info.fit
    /\ NodeAfter.info.predict # NodeAfter.info.fit

C20_Predict_Witness ==
    /\ last.op = "predict"
    /\ last.err = "OK"
    /\ NodeBefore.info.predict.present
    /\ NodeAfter.info.predict # NodeBefore.info.predict
    /\ NodeAfter.info.fit.present

(***************************************************************************)
(* Claims about a mapping of fit states that is kept while the DAG runs.   *)
(***************************************************************************)

\* The mapping holds, for every node of the DAG, the Model and the fit info
\* that `of` gives for the node.
HoldsFitStateOf(od, of) ==
    /\ {od[i][1] : i \in DOMAIN od} = Nids
    /\ \A i \in DOMAIN od :
          /\ od[i][2][KModel] = of[od[i][1]].model
          /\ od[i][2][KInfo] = of[od[i][1]].info.fit

\* C21: the mapping get_fit_state(dag) returns is stable.  Taking it changes
\* no node, and it holds the Model and fit info of every node; while it is
\* kept, the fit and predict calls made on the nodes leave it as it was
\* returned; and set_fit_state(dag, mapping) made later returns and leaves
\* every node with the Model and the fit info it had when the mapping was
\* taken.
C21_SnapshotStable ==
    /\ last.op = "dag_get_fit_state" =>
          /\ nodes = last.before
          /\ last.err = "OK" => HoldsFitStateOf(last.state, last.before)
    /\ snapshot.held => snapshot.fit_state = snapshot.taken
    /\ (last.op = "dag_set_fit_state" /\ snapshot.held) =>
          /\ last.err = "OK"
          /\ HoldsFitStateOf(snapshot.taken, nodes)

\* The mapping was injected after a node had been fitted again and a node
\* had run predict.
C21_Witness ==
    /\ last.op = "dag_set_fit_state"
    /\ last.err = "OK"
    /\ snapshot.held
    /\ \E n \in Nids :
          /\ last.before[n].model.params # nodes[n].model.params
          /\ last.before[n].info.fit # nodes[n].info.fit
    /\ \E n \in Nids : last.before[n].info.predict.present

\* A fit made while the mapping is kept.
C21_FitAfter_Witness ==
    /\ last.op = "fit"
    /\ last.err = "OK"
    /\ snapshot.held
    /\ NodeAfter.model.params # NodeBefore.model.params
    /\ \E i \in DOMAIN snapshot.taken :
          /\ snapshot.taken[i][1] = last.nid
          /\ snapshot.taken[i][2][KModel] = NodeBefore.model

====
